---- MODULE Spec2Model ----
(***************************************************************************)
(* Keyword search over a directory of text files, in its two variants:     *)
(*   "thread"  : text-searcher-1.py, ThreadPoolExecutor + results_lock     *)
(*   "process" : text-searcher-2.py, multiprocessing.Process + mp.Queue    *)
(* One TextSearcher object is constructed, then search_directory is called *)
(* on it up to MaxCalls times.  Every worker step that touches state some  *)
(* other worker or the coordinator can see is an action of its own.        *)
(***************************************************************************)
EXTENDS Naturals, Sequences, FiniteSets

(* ------------------------------ bounds --------------------------------- *)
MaxFiles == 3
MaxWorkers == 4
MaxCalls == 2
MaxListed == 8
MaxPool == 6

(* ------------------------- strings and files --------------------------- *)
\* A string is a sequence of one-character strings.
\* str.lower() on one character.
Lower(c) ==
  CASE c = "A" -> "a"
    [] c = "B" -> "b"
    [] OTHER -> c

\* str.lower() on a string.
LowerStr(s) == [i \in 1..Len(s) |-> Lower(s[i])]

\* Python's `sub in s` on strings.
Contains(sub, s) ==
  \E i \in 0..Len(s) :
    /\ i + Len(sub) <= Len(s)
    /\ \A j \in 1..Len(sub) : s[i + j] = sub[j]

\* The file system the searcher runs against: every path has a content, or
\* cannot be opened / decoded (ok = FALSE).  It is never written.
Paths == {"f1", "f2", "f3", "f4"}

Disk ==
  [p \in Paths |->
     CASE p = "f1" -> [ok |-> TRUE,  content |-> <<"A", "b">>]
       [] p = "f2" -> [ok |-> FALSE, content |-> <<"a", "b">>]
       [] p = "f3" -> [ok |-> TRUE,  content |-> <<"B", "a">>]
       [] OTHER    -> [ok |-> TRUE,  content |-> <<"a", "B", "a">>]]

\* The keyword lists a caller may construct the searcher with (as sets).
KeywordChoices ==
  { { <<"a", "B">> },
    { <<"A">>, <<"a", "b">> },
    { <<"b", "b">>, <<"B", "A">> } }

\* The order in which the directory yields its entries.
DirOrder == <<"f1", "f2", "f3", "f4">>

Pos(p) == CHOOSE i \in DOMAIN DirOrder : DirOrder[i] = p

\* What list(path.glob(pattern)) can return: the entries that match the
\* pattern, each once, in the directory's order.
Listings ==
  { s \in UNION { [1..n -> Paths] : n \in 0..MaxFiles } :
      \A i, j \in DOMAIN s : i < j => Pos(s[i]) < Pos(s[j]) }

(* ---------------------- dict[str, set[str]] values --------------------- *)
EmptyDict == [k \in {} |-> {}]

Get(d, k) == IF k \in DOMAIN d THEN d[k] ELSE {}

\* for keyword, files in l.items(): d[keyword].update(files)
UpdateMutant(d, l) ==
  [k \in (DOMAIN d) \cup (DOMAIN l) |-> IF k \in DOMAIN l THEN l[k] ELSE d[k]]

Update(d, l) ==
  [k \in (DOMAIN d) \cup (DOMAIN l) |-> Get(d, k) \cup Get(l, k)]

(* ------------------------------ search_file ---------------------------- *)
\* Keywords of kws found in the lowercased content of an opened file.
MatchedMutant(content, kws) ==
  { k \in kws : Contains(k, LowerStr(content)) }

Matched(content, kws) ==
  { k \in kws : Contains(LowerStr(k), LowerStr(content)) }

\* search_file: the mapping keyword -> {path} of the keywords found; an
\* exception of open()/read() is caught and leaves the mapping empty.
SearchFileMutant(p, kws) ==
  [k \in Matched(Disk[p].content, kws) |-> {p}]

SearchFile(p, kws) ==
  IF Disk[p].ok
    THEN [k \in Matched(Disk[p].content, kws) |-> {p}]
    ELSE EmptyDict

(* ------------------------------ partition ------------------------------ *)
\* files_per_thread = len(all_files) // num + 1
FilesPerMutant(n, num) == (n + num - 1) \div num

FilesPer(n, num) == n \div num + 1

\* range(0, len(all_files), files_per_thread)
ChunkStartsMutant(n, step) == { i \in 0..(n - 1) : i % step = 0 /\ i + step <= n }

ChunkStarts(n, step) == { i \in 0..(n - 1) : i % step = 0 }

Min(a, b) == IF a < b THEN a ELSE b

\* all_files[i:i + step]
SliceMutant(files, i, step) == SubSeq(files, i + 1, Min(i + step + 1, Len(files)))

Slice(files, i, step) == SubSeq(files, i + 1, Min(i + step, Len(files)))

\* [all_files[i:i + step] for i in range(0, len(all_files), step)]
Chunks(files, num) ==
  LET step == FilesPer(Len(files), num)
      cnt  == Cardinality(ChunkStarts(Len(files), step))
  IN  [c \in 1..cnt |-> Slice(files, (c - 1) * step, step)]


(* -------------------------------- state -------------------------------- *)
VARIABLES
  variant,        \* which of the two programs runs
  keywords,       \* self.keywords
  num_workers,    \* self.num_threads / self.num_processes
  calls,          \* search_directory calls made on this object so far
  pc,             \* where the coordinator (search_directory) is
  failure,        \* the exception the current call caught, if any
  log,            \* what the current call's logger reported
  returned,       \* the mapping the current call returned
  all_files,      \* all_files
  file_chunks,    \* file_chunks
  launched,       \* workers started by the current call
  worker,         \* per worker: position, loop index, local mappings
  results,        \* self.results (thread variant)
  prior,          \* self.results when the current call was entered
  results_lock,   \* self.results_lock: 0 when free, else the holder
  result_queue,   \* result_queue (process variant)
  final_results,  \* final_results (process variant)
  got,            \* messages taken from result_queue
  joined,         \* processes joined
  reads,          \* per path: times the current call opened it
  puts,           \* per worker: messages put on result_queue
  merges,         \* per worker: mappings of it merged into the global result
  readers,        \* per path: the workers of the current call that opened it
  prev,           \* the call before, where kept: listing, exit, returned mapping
  part            \* a partition computed on its own: inputs and chunks

vars ==
  <<variant, keywords, num_workers, calls, pc, failure, log, returned,
    all_files, file_chunks, launched, worker, results, prior, results_lock,
    result_queue, final_results, got, joined, reads, puts, merges, readers,
    prev, part>>

config  == <<variant, keywords, num_workers, part>>
ghosts  == <<reads, puts, merges, readers>>

Variants == {"thread", "process"}

\* Worker w scans file_chunks[w]; there are never more chunks than files.
WorkerIds == 1..MaxFiles

Done == {"done", "done_empty", "done_error"}

IdleWorker == [st |-> "idle", idx |-> 0, local |-> EmptyDict, acc |-> EmptyDict]

\* The mapping under construction: self.results or final_results.
GlobalResult == IF variant = "thread" THEN results ELSE final_results

\* The object as __init__ leaves it, before any call.
FreshSearcher ==
  /\ variant \in Variants
  /\ keywords \in KeywordChoices
  /\ num_workers \in 1..MaxWorkers
  /\ calls = 0
  /\ pc = "idle"
  /\ failure = "none"
  /\ log = "none"
  /\ returned = EmptyDict
  /\ all_files = <<>>
  /\ file_chunks = <<>>
  /\ launched = 0
  /\ worker = [w \in WorkerIds |-> IdleWorker]
  /\ results = EmptyDict
  /\ prior = EmptyDict
  /\ results_lock = 0
  /\ result_queue = <<>>
  /\ final_results = EmptyDict
  /\ got = 0
  /\ joined = 0
  /\ reads = [p \in Paths |-> 0]
  /\ puts = [w \in WorkerIds |-> 0]
  /\ merges = [w \in WorkerIds |-> 0]
  /\ readers = [p \in Paths |-> {}]
  /\ prev = [files |-> <<>>, pc |-> "idle", returned |-> EmptyDict]

\* No partition computed on its own.
NoPart == [files |-> <<>>, num |-> 1, chunks |-> <<>>, applied |-> FALSE]

Init == FreshSearcher /\ part = NoPart

(* ----------------------------- coordinator ----------------------------- *)
\* A caller enters search_directory (again): the call's locals are fresh,
\* self.results is whatever the object holds.  Processes an earlier call left
\* running write only to that call's queue and are not followed further.
CallWith(before) ==
  /\ pc \in {"idle"} \cup Done
  /\ calls < MaxCalls
  /\ calls' = calls + 1
  /\ pc' = "glob"
  /\ failure' = "none"
  /\ log' = "none"
  /\ returned' = EmptyDict
  /\ all_files' = <<>>
  /\ file_chunks' = <<>>
  /\ launched' = 0
  /\ worker' = [w \in WorkerIds |-> IdleWorker]
  /\ prior' = results
  /\ result_queue' = <<>>
  /\ final_results' = EmptyDict
  /\ got' = 0
  /\ joined' = 0
  /\ reads' = [p \in Paths |-> 0]
  /\ puts' = [w \in WorkerIds |-> 0]
  /\ merges' = [w \in WorkerIds |-> 0]
  /\ readers' = [p \in Paths |-> {}]
  /\ prev' = before
  /\ UNCHANGED <<config, results, results_lock>>

\* A call whose predecessor is not kept for comparison.
Call == CallWith(prev)

\* A call that keeps the call before it for comparison: what it listed, how
\* it ended and what it returned.
CallAgain == CallWith([files |-> all_files, pc |-> pc, returned |-> returned])

\* all_files = list(path.glob(file_pattern)), not empty.
Glob ==
  /\ pc = "glob"
  /\ \E listing \in Listings \ {<<>>} : all_files' = listing
  /\ pc' = "partition"
  /\ UNCHANGED <<config, prev, calls, failure, log, returned, file_chunks, launched,
                 worker, results, prior, results_lock, result_queue,
                 final_results, got, joined, ghosts>>

\* `if not all_files:` what the call returns.
NoFilesReturn == IF variant = "thread" THEN results ELSE EmptyDict

\* The listing is empty: warning, return.
GlobEmpty ==
  /\ pc = "glob"
  /\ all_files' = <<>>
  /\ log' = "warning"
  /\ returned' = NoFilesReturn
  /\ pc' = "done_empty"
  /\ UNCHANGED <<config, prev, calls, failure, file_chunks, launched, worker, results,
                 prior, results_lock, result_queue, final_results, got, joined,
                 ghosts>>

\* `except Exception as e:` what the call returns.
HandlerReturn == IF variant = "thread" THEN results ELSE EmptyDict

\* Path(directory).glob raises: the handler logs the error and returns.
GlobFailMutant ==
  /\ pc = "glob"
  /\ failure' = "listing"
  /\ pc' = "raised"
  /\ UNCHANGED <<config, prev, calls, log, returned, all_files, file_chunks, launched,
                 worker, results, prior, results_lock, result_queue,
                 final_results, got, joined, ghosts>>

GlobFail ==
  /\ pc = "glob"
  /\ failure' = "listing"
  /\ log' = "error"
  /\ returned' = HandlerReturn
  /\ pc' = "done_error"
  /\ UNCHANGED <<config, prev, calls, all_files, file_chunks, launched, worker,
                 results, prior, results_lock, result_queue, final_results, got,
                 joined, ghosts>>

\* file_chunks = [...]
Partition ==
  /\ pc = "partition"
  /\ file_chunks' = Chunks(all_files, num_workers)
  /\ pc' = "launch"
  /\ UNCHANGED <<config, prev, calls, failure, log, returned, all_files, launched,
                 worker, results, prior, results_lock, result_queue,
                 final_results, got, joined, ghosts>>

\* Where the coordinator goes once every chunk has its worker: the exit of
\* the `with ThreadPoolExecutor` block, or the loop of result_queue.get().
AfterLaunchMutant == IF variant = "thread" THEN "report" ELSE "collect"

AfterLaunch == IF variant = "thread" THEN "wait" ELSE "collect"

\* executor.map submits / p.start() starts the worker of the next chunk.
Launch ==
  /\ pc = "launch"
  /\ launched < Len(file_chunks)
  /\ launched' = launched + 1
  /\ worker' = [worker EXCEPT ![launched + 1] =
                  [st |-> "search", idx |-> 1, local |-> EmptyDict,
                   acc |-> EmptyDict]]
  /\ pc' = IF launched + 1 = Len(file_chunks) THEN AfterLaunch ELSE "launch"
  /\ UNCHANGED <<config, prev, calls, failure, log, returned, all_files, file_chunks,
                 results, prior, results_lock, result_queue, final_results, got,
                 joined, ghosts>>

\* Starting the worker of the next chunk raises (the operating system
\* refuses a new thread or process).  Thread variant: the exception leaves
\* the `with` block, whose exit waits for the tasks already running.
\* Process variant: the handler runs at once.
LaunchFail ==
  /\ pc = "launch"
  /\ launched < Len(file_chunks)
  /\ failure' = "launch"
  /\ IF variant = "thread"
       THEN /\ pc' = "unwind"
            /\ UNCHANGED <<log, returned>>
       ELSE /\ pc' = "done_error"
            /\ log' = "error"
            /\ returned' = HandlerReturn
  /\ UNCHANGED <<config, prev, calls, all_files, file_chunks, launched, worker,
                 results, prior, results_lock, result_queue, final_results, got,
                 joined, ghosts>>

AllFinished == \A w \in 1..launched : worker[w].st = "finished"

\* The `with ThreadPoolExecutor` block exits normally: shutdown(wait=True).
ExecutorShutdown ==
  /\ pc = "wait"
  /\ AllFinished
  /\ pc' = "report"
  /\ UNCHANGED <<config, prev, calls, failure, log, returned, all_files, file_chunks,
                 launched, worker, results, prior, results_lock, result_queue,
                 final_results, got, joined, ghosts>>

\* The `with` block exits by the exception: shutdown(wait=True), then the
\* handler logs the error and returns.
ExecutorUnwind ==
  /\ pc = "unwind"
  /\ AllFinished
  /\ log' = "error"
  /\ returned' = HandlerReturn
  /\ pc' = "done_error"
  /\ UNCHANGED <<config, prev, calls, failure, all_files, file_chunks, launched,
                 worker, results, prior, results_lock, result_queue,
                 final_results, got, joined, ghosts>>

\* for _ in range(len(processes)): how many messages the coordinator takes.
GetsNeededMutant(n) == n + 1

GetsNeeded(n) == n

\* process_results = result_queue.get(), merged into final_results.
QueueGet ==
  /\ pc = "collect"
  /\ got < GetsNeeded(launched)
  /\ result_queue # <<>>
  /\ LET msg == Head(result_queue) IN
       /\ final_results' = Update(final_results, msg.data)
       /\ merges' = [merges EXCEPT ![msg.src] = @ + 1]
  /\ result_queue' = Tail(result_queue)
  /\ got' = got + 1
  /\ pc' = IF got + 1 = GetsNeeded(launched) THEN "join" ELSE "collect"
  /\ UNCHANGED <<config, prev, calls, failure, log, returned, all_files, file_chunks,
                 launched, worker, results, prior, results_lock, joined, reads,
                 puts, readers>>

\* p.join() for the next process.
Join ==
  /\ pc = "join"
  /\ joined < launched
  /\ worker[joined + 1].st = "finished"
  /\ joined' = joined + 1
  /\ pc' = IF joined + 1 = launched THEN "report" ELSE "join"
  /\ UNCHANGED <<config, prev, calls, failure, log, returned, all_files, file_chunks,
                 launched, worker, results, prior, results_lock, result_queue,
                 final_results, got, ghosts>>

\* The two logger.info lines, then return dict(...).
Report ==
  /\ pc = "report"
  /\ log' = "info"
  /\ returned' = GlobalResult
  /\ pc' = "done"
  /\ UNCHANGED <<config, prev, calls, failure, all_files, file_chunks, launched,
                 worker, results, prior, results_lock, result_queue,
                 final_results, got, joined, ghosts>>

(* -------------------------- thread-variant worker ---------------------- *)
ChunkOf(w) == file_chunks[w]

\* local_results = self.search_file(filepath)
ThreadSearch(w) ==
  /\ variant = "thread"
  /\ worker[w].st = "search"
  /\ LET f == ChunkOf(w)[worker[w].idx]
         r == SearchFile(f, keywords)
     IN  /\ worker' = [worker EXCEPT ![w].local = r,
                                     ![w].acc = Update(@, r),
                                     ![w].st = "lock"]
         /\ reads' = [reads EXCEPT ![f] = @ + 1]
         /\ readers' = [readers EXCEPT ![f] = @ \cup {w}]
  /\ UNCHANGED <<config, prev, calls, pc, failure, log, returned, all_files,
                 file_chunks, launched, results, prior, results_lock,
                 result_queue, final_results, got, joined, puts, merges>>

\* with self.results_lock: (enter)
ThreadAcquireMutant(w) ==
  /\ variant = "thread"
  /\ worker[w].st = "lock"
  /\ results_lock' = w
  /\ worker' = [worker EXCEPT ![w].st = "merge"]
  /\ UNCHANGED <<config, prev, calls, pc, failure, log, returned, all_files,
                 file_chunks, launched, results, prior, result_queue,
                 final_results, got, joined, ghosts>>

ThreadAcquire(w) ==
  /\ variant = "thread"
  /\ worker[w].st = "lock"
  /\ results_lock = 0
  /\ results_lock' = w
  /\ worker' = [worker EXCEPT ![w].st = "merge"]
  /\ UNCHANGED <<config, prev, calls, pc, failure, log, returned, all_files,
                 file_chunks, launched, results, prior, result_queue,
                 final_results, got, joined, ghosts>>

\* for keyword, files in local_results.items(): self.results[keyword].update(files)
ThreadMerge(w) ==
  /\ variant = "thread"
  /\ worker[w].st = "merge"
  /\ results' = Update(results, worker[w].local)
  /\ merges' = [merges EXCEPT ![w] = @ + 1]
  /\ worker' = [worker EXCEPT ![w].st = "unlock"]
  /\ UNCHANGED <<config, prev, calls, pc, failure, log, returned, all_files,
                 file_chunks, launched, prior, results_lock, result_queue,
                 final_results, got, joined, reads, puts, readers>>

\* with self.results_lock: (exit), then the next file of the chunk.
ThreadReleaseMutant(w) ==
  /\ variant = "thread"
  /\ worker[w].st = "unlock"
  /\ worker' = [worker EXCEPT
                  ![w].idx = @ + 1,
                  ![w].st = IF worker[w].idx + 1 > Len(file_chunks[w])
                              THEN "finished" ELSE "search"]
  /\ UNCHANGED <<config, prev, calls, pc, failure, log, returned, all_files,
                 file_chunks, launched, results, prior, results_lock,
                 result_queue, final_results, got, joined, ghosts>>

ThreadRelease(w) ==
  /\ variant = "thread"
  /\ worker[w].st = "unlock"
  /\ results_lock' = 0
  /\ worker' = [worker EXCEPT
                  ![w].idx = @ + 1,
                  ![w].st = IF worker[w].idx + 1 > Len(ChunkOf(w))
                              THEN "finished" ELSE "search"]
  /\ UNCHANGED <<config, prev, calls, pc, failure, log, returned, all_files,
                 file_chunks, launched, results, prior, result_queue,
                 final_results, got, joined, ghosts>>

(* ------------------------- process-variant worker ---------------------- *)
\* file_results = search_file(...), merged into process_results.
ProcSearch(w) ==
  /\ variant = "process"
  /\ worker[w].st = "search"
  /\ LET f == ChunkOf(w)[worker[w].idx]
         r == SearchFile(f, keywords)
     IN  /\ worker' = [worker EXCEPT
                         ![w].local = r,
                         ![w].acc = Update(@, r),
                         ![w].idx = @ + 1,
                         ![w].st = IF worker[w].idx + 1 > Len(ChunkOf(w))
                                     THEN "put" ELSE "search"]
         /\ reads' = [reads EXCEPT ![f] = @ + 1]
         /\ readers' = [readers EXCEPT ![f] = @ \cup {w}]
  /\ UNCHANGED <<config, prev, calls, pc, failure, log, returned, all_files,
                 file_chunks, launched, results, prior, results_lock,
                 result_queue, final_results, got, joined, puts, merges>>

\* result_queue.put(dict(process_results))
ProcPut(w) ==
  /\ variant = "process"
  /\ worker[w].st = "put"
  /\ result_queue' = Append(result_queue, [src |-> w, data |-> worker[w].acc])
  /\ puts' = [puts EXCEPT ![w] = @ + 1]
  /\ worker' = [worker EXCEPT ![w].st = "exit"]
  /\ UNCHANGED <<config, prev, calls, pc, failure, log, returned, all_files,
                 file_chunks, launched, results, prior, results_lock,
                 final_results, got, joined, reads, merges, readers>>

\* The process ends once its message is handed to the queue.
ProcExit(w) ==
  /\ variant = "process"
  /\ worker[w].st = "exit"
  /\ worker' = [worker EXCEPT ![w].st = "finished"]
  /\ UNCHANGED <<config, prev, calls, pc, failure, log, returned, all_files,
                 file_chunks, launched, results, prior, results_lock,
                 result_queue, final_results, got, joined, ghosts>>

(* ----------------------------- specification --------------------------- *)
Coordinator ==
  \/ Glob \/ GlobEmpty \/ GlobFail \/ Partition \/ Launch \/ LaunchFail
  \/ ExecutorShutdown \/ ExecutorUnwind \/ QueueGet \/ Join \/ Report

WorkerStep(w) ==
  \/ ThreadSearch(w) \/ ThreadAcquire(w) \/ ThreadMerge(w) \/ ThreadRelease(w)
  \/ ProcSearch(w) \/ ProcPut(w) \/ ProcExit(w)

Next ==
  \/ Call
  \/ Coordinator
  \/ \E w \in WorkerIds : WorkerStep(w)

Spec == Init /\ [][Next]_vars

\* Threads and processes are scheduled by the operating system: a worker
\* that can take a step eventually takes one, and so does the coordinator.
\* Nothing obliges a caller to call again.
FairSpec ==
  /\ Init
  /\ [][Next]_vars
  /\ WF_vars(Coordinator)
  /\ \A w \in WorkerIds : WF_vars(WorkerStep(w))

\* The same search run again: every call after the first lists what the
\* call before it listed (the files are not modified between the calls).
SameListing ==
  IF prev.files = <<>> THEN GlobEmpty ELSE Glob /\ all_files' = prev.files

TwiceNext ==
  \/ CallAgain
  \/ calls = 1 /\ (Glob \/ GlobEmpty)
  \/ calls > 1 /\ SameListing
  \/ GlobFail \/ Partition \/ Launch \/ LaunchFail
  \/ ExecutorShutdown \/ ExecutorUnwind \/ QueueGet \/ Join \/ Report
  \/ \E w \in WorkerIds : WorkerStep(w)

TwiceSpec == Init /\ [][TwiceNext]_vars

\* The partition of lines 56-58 on its own: a listing of n files (named by
\* their positions) and a number of workers, then the chunks built from them.
PartInit ==
  /\ FreshSearcher
  /\ \E n \in 1..MaxListed : \E num \in 1..MaxPool :
       part = [files |-> [i \in 1..n |-> i], num |-> num, chunks |-> <<>>,
               applied |-> FALSE]

ApplyPartition ==
  /\ ~part.applied
  /\ part' = [part EXCEPT !.chunks = Chunks(part.files, part.num),
                          !.applied = TRUE]
  /\ UNCHANGED <<variant, keywords, num_workers, calls, pc, failure, log,
                 returned, all_files, file_chunks, launched, worker, results,
                 prior, results_lock, result_queue, final_results, got, joined,
                 ghosts, prev>>

PartSpec == PartInit /\ [][ApplyPartition]_vars

(* ------------------------- vocabulary of the claims -------------------- *)
Range(s) == { s[i] : i \in DOMAIN s }

RECURSIVE Flatten(_)
Flatten(ss) == IF ss = <<>> THEN <<>> ELSE Head(ss) \o Flatten(Tail(ss))

\* Two characters that are the same letter, whatever their case.
SameLetter(c, d) ==
  \/ c = d
  \/ <<c, d>> \in {<<"a", "A">>, <<"A", "a">>, <<"b", "B">>, <<"B", "b">>}

\* k occurs in s at some position, comparing letters without regard to case.
OccursIgnoringCase(k, s) ==
  \E i \in 0..Len(s) :
    /\ i + Len(k) <= Len(s)
    /\ \A j \in 1..Len(k) : SameLetter(k[j], s[i + j])

\* The coordinator is past the partition step of a call that listed files.
Partitioned == pc \in {"launch", "wait", "unwind", "collect", "join", "report", "done"}

\* The coordinator is past the launch loop, every chunk having its worker.
AllLaunched == pc \in {"wait", "collect", "join", "report", "done"}

\* The global result a call starts from.
BaseResult == IF variant = "thread" THEN prior ELSE EmptyDict

\* What one worker alone leaves in the global result: the files in listing
\* order, each file's mapping merged before the next file is read.
RECURSIVE OneWorkerRun(_, _, _)
OneWorkerRun(d, files, kws) ==
  IF files = <<>> THEN d
  ELSE OneWorkerRun(Update(d, SearchFile(Head(files), kws)), Tail(files), kws)

\* The mappings a launched worker must have merged when it is finished.
MergesDue(w) == IF variant = "thread" THEN Len(ChunkOf(w)) ELSE 1

\* Position in its chunk of the file worker w scanned last (0: none yet).
LastScanned(w) ==
  IF worker[w].st = "idle" THEN 0
  ELSE IF variant = "thread" /\ worker[w].st \in {"lock", "merge", "unlock"}
         THEN worker[w].idx
         ELSE worker[w].idx - 1

\* The matches of a scan, stated from the files alone: per keyword the
\* readable files of the listing in which it occurs without regard to case;
\* a keyword that occurs nowhere has no entry.
FoundIn(kws, files) ==
  LET hit(k) == { f \in Range(files) :
                    Disk[f].ok /\ OccursIgnoringCase(k, Disk[f].content) }
  IN  [k \in { kk \in kws : hit(kk) # {} } |-> hit(k)]

\* The mappings waiting to be merged into the global result: the messages on
\* the queue, or the local results of the threads at the lock.
PendingIds ==
  IF variant = "process" THEN 1..Len(result_queue)
  ELSE { w \in WorkerIds : worker[w].st \in {"lock", "merge"} }

PendingMap(i) ==
  IF variant = "process" THEN result_queue[i].data ELSE worker[i].local

\* The orders in which the members of S can be taken, each once.
Orders(S) ==
  { o \in [1..Cardinality(S) -> S] : \A i, j \in DOMAIN o : i # j => o[i] # o[j] }

\* The global result after the pending mappings are merged in the order o.
RECURSIVE MergeInOrder(_, _)
MergeInOrder(d, o) ==
  IF o = <<>> THEN d
  ELSE MergeInOrder(Update(d, PendingMap(Head(o))), Tail(o))

(* -------------------------------- claims ------------------------------- *)

\* C1: after a normal return of the first call on a searcher, a listed file f
\* is in result[k] exactly when f could be read and k occurs in its content
\* without regard to case; in both variants, any number of workers.
C1_ResultExact ==
  (pc = "done" /\ calls = 1) =>
    \A k \in keywords : \A f \in Range(all_files) :
      (f \in Get(returned, k)) <=>
        (Disk[f].ok /\ OccursIgnoringCase(k, Disk[f].content))

C1_Witness ==
  /\ pc = "done" /\ calls = 1 /\ launched >= 2
  /\ "f2" \in Range(all_files)
  /\ \E k \in keywords : k # LowerStr(k) /\ Get(returned, k) # {}
  /\ \E k \in keywords : \E f \in Range(all_files) :
       Disk[f].ok /\ f \notin Get(returned, k)

\* C2: a call that returns normally returns the mapping a single worker
\* scanning the whole listing returns on the same keywords and files,
\* whatever the number of workers and their interleaving.
C2_SameAsOneWorker ==
  pc = "done" => returned = OneWorkerRun(BaseResult, all_files, keywords)

C2_Witness ==
  /\ pc = "done" /\ num_workers >= 2 /\ launched >= 2
  /\ \E k \in keywords : Cardinality(Get(returned, k)) >= 2

\* C3: the chunks are contiguous slices of the listing, and put one after the
\* other in chunk order they are the listing: no file left out, none twice.
C3_PartitionExact ==
  /\ Flatten(Chunks(<<>>, num_workers)) = <<>>
  /\ Partitioned =>
       /\ Flatten(file_chunks) = all_files
       /\ \A f \in Range(all_files) :
            Cardinality({ <<c, i>> \in (DOMAIN file_chunks) \X (1..MaxFiles + 1) :
                            i <= Len(file_chunks[c]) /\ file_chunks[c][i] = f }) = 1
       /\ \A c \in DOMAIN file_chunks :
            \E a \in 0..Len(all_files) :
              file_chunks[c] = SubSeq(all_files, a + 1, a + Len(file_chunks[c]))

C3_Witness ==
  /\ pc = "launch"
  /\ Len(file_chunks) = 2
  /\ Len(file_chunks[1]) = 2 /\ Len(file_chunks[2]) = 1

\* C4: whenever search_directory has returned, by whatever exit, every worker
\* it started has finished and has had all its local results merged.
C4_Barrier ==
  pc \in Done =>
    \A w \in 1..launched :
      worker[w].st = "finished" /\ merges[w] = MergesDue(w)

\* C5: at a normal return the global result is, key by key, the union of
\* what the call started from and every worker's local results; each worker's
\* results were merged exactly once; a process put one message and the
\* coordinator took one per process; a thread merges only holding the lock.
C5_UnionExactlyOnce ==
  /\ \A w \in WorkerIds :
       /\ merges[w] <= (IF worker[w].st = "idle" THEN 0 ELSE MergesDue(w))
       /\ puts[w] <= 1
       /\ worker[w].st \in {"merge", "unlock"} => results_lock = w
  /\ pc = "done" =>
       /\ DOMAIN GlobalResult =
            (DOMAIN BaseResult) \cup UNION { DOMAIN worker[w].acc : w \in 1..launched }
       /\ \A k \in keywords :
            Get(GlobalResult, k) =
              Get(BaseResult, k) \cup UNION { Get(worker[w].acc, k) : w \in 1..launched }
       /\ \A w \in 1..launched : merges[w] = MergesDue(w)
       /\ variant = "process" =>
            /\ \A w \in 1..launched : puts[w] = 1
            /\ got = launched
            /\ result_queue = <<>>

C5_Witness ==
  /\ pc = "done" /\ launched = 3
  /\ \E k \in keywords :
       \E v, w \in 1..launched :
         v # w /\ Get(worker[v].acc, k) # {} /\ Get(worker[w].acc, k) # {}

\* C6: search_file on a file that cannot be read returns the empty mapping,
\* the worker goes on, and at a normal return every listed file was opened
\* once and every keyword found in a readable file is in the result.
C6_FileErrorContained ==
  /\ \A w \in WorkerIds :
       (LastScanned(w) >= 1 /\ ~Disk[ChunkOf(w)[LastScanned(w)]].ok)
         => worker[w].local = EmptyDict
  /\ pc = "done" =>
       /\ \A w \in 1..launched :
            worker[w].st = "finished" /\ worker[w].idx = Len(ChunkOf(w)) + 1
       /\ \A f \in Range(all_files) : reads[f] = 1
       /\ \A f \in Range(all_files) :
            Disk[f].ok =>
              \A k \in Matched(Disk[f].content, keywords) : f \in Get(returned, k)

C6_Witness ==
  /\ pc = "done"
  /\ \E w \in 1..launched :
       /\ Len(ChunkOf(w)) = 2
       /\ ~Disk[ChunkOf(w)[1]].ok
       /\ \E k \in keywords : ChunkOf(w)[2] \in Get(returned, k)
  /\ \E w \in 1..launched : \A i \in 1..Len(ChunkOf(w)) : Disk[ChunkOf(w)[i]].ok

\* C7: under fair scheduling every call of search_directory returns: it gets
\* to DONE, DONE-EMPTY or DONE-ERROR, whatever the listing, the workers'
\* interleaving and the failures caught on the way.
C7_CallReturns == (pc = "glob") ~> (pc \in Done)

C7_Witness ==
  /\ pc = "done" /\ variant = "process"
  /\ launched >= 2 /\ got = launched /\ joined = launched

\* C8: on an empty listing search_directory builds no chunk, starts no
\* worker, leaves the global result as it was, logs a warning and returns
\* the empty mapping.
C8_EmptyListing ==
  pc = "done_empty" =>
    /\ file_chunks = <<>>
    /\ launched = 0
    /\ GlobalResult = BaseResult
    /\ log = "warning"
    /\ returned = EmptyDict

\* C9: when listing the directory fails the call ends in its handler: no
\* worker was started, the error is logged, a mapping is returned (the global
\* result as it stood, empty on a first call), nothing reaches the caller.
C9_ListingFailure ==
  failure = "listing" =>
    /\ pc = "done_error"
    /\ launched = 0
    /\ \A w \in WorkerIds : worker[w].st = "idle"
    /\ log = "error"
    /\ returned = BaseResult
    /\ GlobalResult = BaseResult
    /\ calls = 1 => returned = EmptyDict

C9_Witness ==
  /\ failure = "listing" /\ pc = "done_error"
  /\ calls = 2 /\ variant = "thread" /\ returned # EmptyDict

\* C10: once the launch loop is over, the workers started are exactly
\* num_workers.
C10_ExactlyNumWorkers == AllLaunched => launched = num_workers

\* C11: every call starts from an empty global result, and the mapping a
\* call returns holds only files that this call listed.
C11_PerCallResult ==
  /\ pc = "glob" => GlobalResult = EmptyDict
  /\ pc \in Done =>
       \A k \in DOMAIN returned : returned[k] \subseteq Range(all_files)

\* C12: a first call on a fresh searcher returns the mapping the keywords and
\* files determine (so two fresh searchers agree), and a call that lists what
\* the call before it listed returns what that call returned, both ending
\* normally.
C12_Idempotent ==
  /\ (calls = 1 /\ pc = "done") => returned = FoundIn(keywords, all_files)
  /\ ( /\ calls > 1
       /\ pc \in {"done", "done_empty"}
       /\ prev.pc \in {"done", "done_empty"}
       /\ prev.files = all_files )
     => returned = prev.returned

C12_Witness ==
  /\ calls = 2 /\ pc = "done" /\ prev.pc = "done" /\ prev.files = all_files
  /\ launched >= 2
  /\ returned # EmptyDict

\* C13: merging the mappings that wait to be merged gives the same global
\* result in whatever order they are taken, and the mapping returned at a
\* normal end is the one the starting mapping and the files determine.
C13_MergeOrderFree ==
  /\ \A o1, o2 \in Orders(PendingIds) :
       MergeInOrder(GlobalResult, o1) = MergeInOrder(GlobalResult, o2)
  /\ pc = "done" =>
       /\ DOMAIN returned =
            (DOMAIN BaseResult) \cup (DOMAIN FoundIn(keywords, all_files))
       /\ \A k \in DOMAIN returned :
            returned[k] = Get(BaseResult, k) \cup Get(FoundIn(keywords, all_files), k)

C13_Witness ==
  /\ variant = "process" /\ pc = "collect"
  /\ Len(result_queue) = 2
  /\ result_queue[1].src > result_queue[2].src
  /\ \E k \in keywords :
       /\ Get(result_queue[1].data, k) # {}
       /\ Get(result_queue[2].data, k) # {}

\* The threads inside the `with self.results_lock` block.
InLock == { w \in WorkerIds : worker[w].st \in {"merge", "unlock"} }

\* C14: in the thread variant at most one worker is inside the lock's block,
\* it is the holder of results_lock, and every step that merges into the
\* shared mapping, or changes it, is a step of the holder alone.
C14_LockGuardsResults ==
  /\ [](variant = "thread" =>
          /\ Cardinality(InLock) <= 1
          /\ \A w \in InLock : results_lock = w)
  /\ [][ (variant = "thread" /\ calls' = calls) =>
           /\ \A w \in WorkerIds :
                merges'[w] # merges[w] =>
                  /\ results_lock = w /\ results_lock' = w
                  /\ \A v \in WorkerIds \ {w} : worker'[v] = worker[v]
           /\ results' # results =>
                \E w \in WorkerIds : merges'[w] = merges[w] + 1 ]_vars

C14_Witness ==
  /\ variant = "thread"
  /\ results # EmptyDict
  /\ \E v, w \in 1..launched :
       /\ worker[v].st = "merge" /\ results_lock = v
       /\ worker[w].st = "lock"
       /\ worker[w].local # EmptyDict

\* C15: a thread holds results_lock exactly while it is inside the block
\* that merges: never while search_file reads a file, taken after
\* search_file returned, given back before the next read, and taken once
\* for each merge of a local result.
C15_NoLockDuringRead ==
  /\ [](variant = "thread" =>
          \A w \in WorkerIds : (results_lock = w) <=> (w \in InLock))
  /\ [][ variant = "thread" =>
           \A w \in WorkerIds :
             /\ readers' # readers /\ worker'[w] # worker[w] =>
                  results_lock # w /\ results_lock' # w
             /\ (results_lock # w /\ results_lock' = w) =>
                  /\ worker[w].st = "lock"
                  /\ worker[w].local = SearchFile(ChunkOf(w)[worker[w].idx], keywords)
                  /\ merges[w] = worker[w].idx - 1
             /\ (results_lock = w /\ results_lock' # w) =>
                  /\ merges[w] = worker[w].idx
                  /\ worker'[w].st \in {"search", "finished"} ]_vars

C15_Witness ==
  /\ variant = "thread"
  /\ \E v, w \in 1..launched :
       /\ worker[w].st = "search" /\ worker[w].idx = 2 /\ merges[w] = 1
       /\ results_lock = v /\ v # w

\* C16: within a call no file is opened twice, a file is opened only by the
\* worker whose chunk holds it, files not listed are not opened, and at a
\* normal end every listed file has been opened once.
C16_ScannedOnce ==
  /\ \A p \in Paths :
       /\ reads[p] <= 1
       /\ Cardinality(readers[p]) = reads[p]
       /\ \A w \in readers[p] : w \in 1..launched /\ p \in Range(ChunkOf(w))
       /\ p \notin Range(all_files) => reads[p] = 0
  /\ pc = "done" => \A p \in Range(all_files) : reads[p] = 1

C16_Witness ==
  /\ pc = "done" /\ launched = 3
  /\ \A w \in 1..3 : readers[all_files[w]] = {w}

\* C17: during a call no step removes a keyword from the global result or
\* a file from a keyword's set.
C17_OnlyGrows ==
  [][ calls' = calls =>
        \A k \in DOMAIN GlobalResult :
          /\ k \in DOMAIN GlobalResult'
          /\ GlobalResult[k] \subseteq GlobalResult'[k] ]_vars

C17_Witness ==
  /\ pc \in {"wait", "collect"}
  /\ \E k \in keywords : Cardinality(Get(GlobalResult, k)) >= 2
  /\ \E w \in 1..launched : worker[w].st # "finished"

\* Sizes of the chunks of the partition computed on its own.
PartSizes == [c \in DOMAIN part.chunks |-> Len(part.chunks[c])]

\* C18: the sizes of any two chunks differ by at most one, and a chunk is
\* empty only when there are fewer files than workers.
C18_Balanced ==
  part.applied =>
    /\ \A c, d \in DOMAIN PartSizes : PartSizes[c] <= PartSizes[d] + 1
    /\ (\E c \in DOMAIN PartSizes : PartSizes[c] = 0) => Len(part.files) < part.num

\* C19: for n >= 1 files and w >= 1 workers there are between 1 and w
\* chunks, none empty, all but the last of n // w + 1 files and the last of
\* no more; 8 files and 4 workers give chunks of 3, 3 and 2 files.
C19_ChunkSizes ==
  part.applied =>
    LET n    == Len(part.files)
        w    == part.num
        size == n \div w + 1
        cnt  == Len(part.chunks)
    IN  /\ cnt >= 1 /\ cnt <= w
        /\ \A c \in 1..cnt : PartSizes[c] >= 1 /\ PartSizes[c] <= size
        /\ \A c \in 1..(cnt - 1) : PartSizes[c] = size
        /\ Flatten(part.chunks) = part.files
        /\ (n = 8 /\ w = 4) => PartSizes = <<3, 3, 2>>

C19_Witness ==
  /\ part.applied /\ Len(part.files) = 8 /\ part.num = 4
  /\ Len(part.chunks) = 3

\* C20: every key of the global result and of the returned mapping is a
\* keyword of the searcher, maps to a set that is not empty, and maps only
\* to files the call listed.
C20_WellFormed ==
  /\ \A k \in DOMAIN GlobalResult :
       /\ k \in keywords
       /\ GlobalResult[k] # {}
       /\ GlobalResult[k] \subseteq Range(all_files)
  /\ pc \in Done =>
       \A k \in DOMAIN returned :
         /\ k \in keywords
         /\ returned[k] # {}
         /\ returned[k] \subseteq Range(all_files)

====
